---------------------------- MODULE Spec2Model ----------------------------
(***************************************************************************)
(* A model of india_news_telegram_crawler: of news_crawler_updated.py, the  *)
(* three site adapters (link discovery, field extraction, view estimate),  *)
(* the per-site crawl loop, the crawl-all orchestrator and the JSON        *)
(* archive; of news_forwarder.py, the crawl-and-send run.                  *)
(*                                                                         *)
(* Conventions.  A Python string is a sequence of symbols.  In a URL a     *)
(* symbol is a separator ("/", "-", ".", "?", "[", ":"), a single digit,   *)
(* or an opaque run of letters; in an element's text a symbol is one       *)
(* character.  A parsed page (soup) is the sequence of its elements in     *)
(* document order.  A call that can raise returns [raised, val].           *)
(***************************************************************************)
EXTENDS Integers, Sequences, FiniteSets, TLC

VARIABLES
    pc,            \* position of the call in progress
    scraper,       \* self of the adapter call: a key of IndiaNewsCrawler.scrapers
    page,          \* what the call works on: the response its fetch gets
                   \* (get_article_urls, parse_article) or its soup argument
    url,           \* the url argument of the call
    ret,           \* what the call returned (or raised)
    limit,         \* the limit argument of get_top_articles
    website,       \* crawl_all: how many of self.scrapers the loop has taken
    article_urls,  \* crawl_articles: the capped list of urls
    idx,           \* crawl_articles: the position of the for loop in it
    articles,      \* crawl_articles: the records so far; the articles argument
    delay,         \* crawl_articles under crawl_all: the delay last slept
    results,       \* crawl_all: website -> records
    files,         \* the archive under raw_dir: path -> text of the file
    log,           \* the requests and sleeps so far, in order
    exc,           \* the exception that ended the run, and where it rose
    env            \* the process environment: which credentials are set

callVars == <<scraper, page, url, ret, limit>>

crawlVars == <<website, article_urls, idx, delay, results, log, exc>>

vars == <<pc, scraper, page, url, ret, limit, website, article_urls, idx,
          articles, delay, results, files, log, exc, env>>

---------------------------------------------------------------------------
(* Bounds of the model *)

MaxAnchors == 3     \* anchors on a category page

MaxElems == 2       \* elements on an article page given to parse_article

MaxCounters == 2    \* elements on a page given to extract_views

max_articles_per_website == 2     \* config: the cap on the urls of one site
                                  \* (20 in the default config)

MaxRecords == 3     \* records given to get_top_articles and to _save_raw_data

MaxLimit == 3       \* the limit of get_top_articles

RandSteps == 2      \* a random draw takes RandSteps + 1 evenly spread values

---------------------------------------------------------------------------
(* Python values *)

None == [none |-> TRUE]

\* a BeautifulSoup object over the elements of the page, in document order
Soup(elems) == [none |-> FALSE, elems |-> elems]

Returned(v) == [raised |-> FALSE, val |-> v]

Raised(e) == [raised |-> TRUE, val |-> e]

Digits == {"0", "1", "2", "3", "4", "5", "6", "7", "8", "9"}

Whitespace == {" "}

RECURSIVE Concat(_)
Concat(ss) == IF ss = <<>> THEN <<>> ELSE Head(ss) \o Concat(Tail(ss))

\* needle in hay, for Python strings
Contains(hay, needle) ==
    \E i \in 1..(Len(hay) - Len(needle) + 1) :
        SubSeq(hay, i, i + Len(needle) - 1) = needle

\* s.split(sep): the pieces between the occurrences of the one-symbol sep
RECURSIVE Split(_, _)
Split(s, sep) ==
    IF \A i \in 1..Len(s) : s[i] # sep
    THEN <<s>>
    ELSE LET k == CHOOSE i \in 1..Len(s) :
                      s[i] = sep /\ \A j \in 1..(i - 1) : s[j] # sep
         IN  <<SubSeq(s, 1, k - 1)>> \o Split(SubSeq(s, k + 1, Len(s)), sep)

\* s[-1] of a list
Last(s) == s[Len(s)]

\* s.strip()
RECURSIVE LStrip(_)
LStrip(s) ==
    IF s # <<>> /\ Head(s) \in Whitespace THEN LStrip(Tail(s)) ELSE s

RECURSIVE RStrip(_)
RStrip(s) ==
    IF s # <<>> /\ Last(s) \in Whitespace
    THEN RStrip(SubSeq(s, 1, Len(s) - 1))
    ELSE s

Strip(s) == LStrip(RStrip(s))

---------------------------------------------------------------------------
(* Elements of a parsed page *)

\* a tag with one matching attribute (attr = "" when it has none) and a text
Tag(name, attr, val, text) ==
    [name |-> name, attr |-> attr, val |-> val, text |-> text,
     has_content |-> FALSE, content |-> <<>>, href |-> <<>>]

\* <meta property=prop content=content>
Meta(prop, content) ==
    [name |-> "meta", attr |-> "property", val |-> prop, text |-> <<>>,
     has_content |-> TRUE, content |-> content, href |-> <<>>]

\* <meta property=prop> without a content attribute
MetaNoContent(prop) ==
    [name |-> "meta", attr |-> "property", val |-> prop, text |-> <<>>,
     has_content |-> FALSE, content |-> <<>>, href |-> <<>>]

\* <a href=href>
Anchor(href) ==
    [name |-> "a", attr |-> "", val |-> "", text |-> <<>>,
     has_content |-> FALSE, content |-> <<>>, href |-> href]

\* soup.find(name, attr=val): the first element in document order, or None;
\* attr = "" is a find by tag name alone
Find(soup, name, attr, val) ==
    LET hits == {i \in 1..Len(soup.elems) :
                    /\ soup.elems[i].name = name
                    /\ (attr = "" \/ (/\ soup.elems[i].attr = attr
                                     /\ soup.elems[i].val = val))}
    IN  IF hits = {} THEN None
        ELSE soup.elems[CHOOSE i \in hits : \A j \in hits : i <= j]

\* soup.find_all('a')
FindAllAnchors(soup) == SelectSeq(soup.elems, LAMBDA e : e.name = "a")

---------------------------------------------------------------------------
(* The adapters *)

Scrapers == <<"times_of_india", "hindustan_times", "economic_times">>

ScraperSet == {Scrapers[i] : i \in 1..Len(Scrapers)}

base_url(s) ==
    CASE s = "times_of_india" ->
            <<"https:", "/", "/", "timesofindia", ".", "indiatimes", ".", "com">>
      [] s = "hindustan_times" ->
            <<"https:", "/", "/", "www", ".", "hindustantimes", ".", "com">>
      [] s = "economic_times" ->
            <<"https:", "/", "/", "economictimes", ".", "indiatimes", ".", "com">>

name_of(s) ==
    CASE s = "times_of_india" -> "Times of India"
      [] s = "hindustan_times" -> "Hindustan Times"
      [] s = "economic_times" -> "Economic Times"

\* the substrings that mark an href as an article link
url_patterns(s) ==
    CASE s = "times_of_india" -> {<<"/", "articleshow", "/">>}
      [] s = "hindustan_times" ->
            {<<"/", "story", "-">>, <<"/", "article", "-">>}
      [] s = "economic_times" ->
            {<<"/", "articleshow", "/">>, <<"/", "prime", "/", "news", "/">>}

Schemes == {"https:", "http:", "javascript:"}

\* urllib.parse.urljoin(base, href) for a base of the form scheme://host:
\* a reference with a netloc in unbalanced brackets raises ValueError, one
\* with a scheme and a netloc is kept, a network-path reference takes the
\* base's scheme, a path is put after the base's host
urljoin(base, href) ==
    LET hasScheme == href # <<>> /\ Head(href) \in Schemes
        rest == IF hasScheme THEN Tail(href) ELSE href
        hasNetloc == Len(rest) >= 2 /\ rest[1] = "/" /\ rest[2] = "/"
        netloc == IF hasNetloc
                  THEN Head(Split(SubSeq(rest, 3, Len(rest)), "/"))
                  ELSE <<>>
    IN  IF hasNetloc /\ Contains(netloc, <<"[">>) /\ ~Contains(netloc, <<"]">>)
        THEN Raised("ValueError")
        ELSE IF href = <<>> THEN Returned(base)
        ELSE IF hasScheme /\ (Head(href) # Head(base) \/ Head(href) = "javascript:")
        THEN Returned(href)
        ELSE IF hasNetloc THEN Returned(<<Head(base)>> \o rest)
        ELSE IF rest # <<>> /\ Head(rest) = "/" THEN Returned(base \o rest)
        ELSE Returned(base \o <<"/">> \o rest)

\* What session.get and the parser can make of a request: a page with its
\* elements, an empty body, a requests.RequestException (non-2xx status,
\* timeout, network error), an exception of another class out of
\* session.get, or markup the parser rejects with an exception
Page(elems) == [kind |-> "page", elems |-> elems]

EmptyBody == [kind |-> "empty", elems |-> <<>>]

RequestException == [kind |-> "RequestException", elems |-> <<>>]

OtherException == [kind |-> "Exception", elems |-> <<>>]

RejectedMarkup == [kind |-> "rejected", elems |-> <<>>]

\* get_page: only requests.RequestException is caught
get_page(response) ==
    CASE response.kind = "RequestException" -> Returned(None)
      [] response.kind = "Exception" -> Raised("Exception")
      [] OTHER -> Returned(response)

\* get_soup: None for no html or an empty one, else the parsed page
get_soup(response) ==
    LET html == get_page(response)
    IN  IF html.raised THEN html
        ELSE IF html.val = None \/ html.val.kind = "empty" THEN Returned(None)
        ELSE IF html.val.kind = "rejected" THEN Raised("ParserRejectedMarkup")
        ELSE Returned(Soup(html.val.elems))

\* collect_urls without the "not in urls" test
RECURSIVE collect_urls_no_dedup(_, _, _)
collect_urls_no_dedup(s, anchors, urls) ==
    IF anchors = <<>> THEN Returned(urls)
    ELSE LET href == Head(anchors).href
         IN  IF \E p \in url_patterns(s) : Contains(href, p)
             THEN LET full_url == urljoin(base_url(s), href)
                  IN  IF full_url.raised THEN full_url
                      ELSE collect_urls_no_dedup(s, Tail(anchors),
                                                 Append(urls, full_url.val))
             ELSE collect_urls_no_dedup(s, Tail(anchors), urls)

\* the loop of get_article_urls over the anchors still to visit, with the
\* list built so far
RECURSIVE collect_urls(_, _, _)
collect_urls(s, anchors, urls) ==
    IF anchors = <<>> THEN Returned(urls)
    ELSE LET href == Head(anchors).href
         IN  IF \E p \in url_patterns(s) : Contains(href, p)
             THEN LET full_url == urljoin(base_url(s), href)
                  IN  IF full_url.raised THEN full_url
                      ELSE IF \E i \in 1..Len(urls) :
                                  urls[i] = full_url.val
                      THEN collect_urls(s, Tail(anchors), urls)
                      ELSE collect_urls(s, Tail(anchors),
                                        Append(urls, full_url.val))
             ELSE collect_urls(s, Tail(anchors), urls)

\* get_article_urls, given the response to the fetch of the listing page
get_article_urls(s, response) ==
    LET soup == get_soup(response)
    IN  IF soup.raised THEN soup
        ELSE IF soup.val = None THEN Returned(<<>>)
        ELSE collect_urls(s, FindAllAnchors(soup.val), <<>>)

---------------------------------------------------------------------------
(* Field extraction: the selector fallback chains of parse_article *)

no_title == <<"no title">>     \* the source's literal, a Korean "no title"

Loc(name, attr, val) == [name |-> name, attr |-> attr, val |-> val]

title_candidates(s) ==
    CASE s = "times_of_india" ->
            <<Loc("h1", "class", "_23498"), Loc("h1", "class", "_1Y-96"),
              Loc("h1", "class", "title"), Loc("h1", "", ""),
              Loc("meta", "property", "og:title")>>
      [] s = "hindustan_times" ->
            <<Loc("h1", "class", "hdg1"), Loc("h1", "class", "headline"),
              Loc("h1", "", ""), Loc("meta", "property", "og:title")>>
      [] s = "economic_times" -> <<Loc("h1", "class", "artTitle")>>

content_candidates(s) ==
    CASE s = "times_of_india" ->
            <<Loc("div", "class", "_3YYSt"), Loc("div", "class", "ga-article"),
              Loc("div", "class", "article_content"),
              Loc("div", "id", "articleText"), Loc("div", "class", "Normal")>>
      [] s = "hindustan_times" ->
            <<Loc("div", "class", "storyDetail"),
              Loc("div", "class", "story-details"),
              Loc("div", "class", "article-body"),
              Loc("div", "itemprop", "articleBody")>>
      [] s = "economic_times" -> <<Loc("div", "class", "artText")>>

date_candidates(s) ==
    CASE s = "times_of_india" ->
            <<Loc("div", "class", "_3Mkg-"), Loc("div", "class", "byline"),
              Loc("meta", "property", "article:published_time")>>
      [] s = "hindustan_times" ->
            <<Loc("span", "class", "dateTime"),
              Loc("span", "class", "article-time"),
              Loc("meta", "property", "article:published_time")>>
      [] s = "economic_times" -> <<Loc("time", "class", "pub-time")>>

\* the value a matched candidate gives: a meta tag's content attribute
\* ('' when it has none), any other element's text, trimmed
candidate_value(candidate) ==
    IF candidate.name = "meta"
    THEN Strip(IF candidate.has_content THEN candidate.content ELSE <<>>)
    ELSE Strip(candidate.text)

\* chain_loop that stops at the first candidate found, blank or not
RECURSIVE chain_loop_first_match(_, _, _)
chain_loop_first_match(soup, candidates, value) ==
    IF candidates = <<>> THEN value
    ELSE LET c == Head(candidates)
             candidate == Find(soup, c.name, c.attr, c.val)
         IN  IF candidate # None THEN candidate_value(candidate)
             ELSE chain_loop_first_match(soup, Tail(candidates), value)

\* the for loop over the candidates of one field: value is the field's
\* variable, which every matched candidate overwrites
RECURSIVE chain_loop(_, _, _)
chain_loop(soup, candidates, value) ==
    IF candidates = <<>> THEN value
    ELSE LET c == Head(candidates)
             candidate == Find(soup, c.name, c.attr, c.val)
         IN  IF candidate # None
             THEN LET v == candidate_value(candidate)
                  IN  IF v # <<>> THEN v
                      ELSE chain_loop(soup, Tail(candidates), v)
             ELSE chain_loop(soup, Tail(candidates), value)

\* Economic Times: one locator per field, no loop
single_field(soup, c, default) ==
    LET elem == Find(soup, c.name, c.attr, c.val)
    IN  IF elem # None THEN Strip(elem.text) ELSE default

extract_field(s, soup, candidates, default) ==
    IF s = "economic_times"
    THEN single_field(soup, Head(candidates), default)
    ELSE chain_loop(soup, candidates, default)

\* url.split('/')[3] if len(url.split('/')) > 3 else ""
url_category(u) ==
    LET parts == Split(u, "/") IN IF Len(parts) > 3 THEN parts[4] ELSE <<>>

\* the record's id: the last '/' piece (Hindustan Times: the last '-'
\* piece) of the url, up to its first '.'
article_id_of(s, u) ==
    IF s = "hindustan_times"
    THEN Head(Split(Last(Split(u, "-")), "."))
    ELSE Head(Split(Last(Split(u, "/")), "."))

---------------------------------------------------------------------------
(* The view estimate: extract_views *)

\* random.randint(a, b), the draw given by rnd in 0..RandSteps
randint(a, b, rnd) == a + ((b - a) * rnd) \div RandSteps

DigitVal(d) ==
    CASE d = "0" -> 0 [] d = "1" -> 1 [] d = "2" -> 2 [] d = "3" -> 3
      [] d = "4" -> 4 [] d = "5" -> 5 [] d = "6" -> 6 [] d = "7" -> 7
      [] d = "8" -> 8 [] d = "9" -> 9

\* characters str.isdigit() accepts and int() rejects (superscript two)
OddDigits == {"sup2"}

\* int(s) of a string of decimal digits
RECURSIVE ToInt(_)
ToInt(s) ==
    IF s = <<>> THEN 0
    ELSE 10 * ToInt(SubSeq(s, 1, Len(s) - 1)) + DigitVal(Last(s))

\* s.lower() on the letters of the counter texts
Lower(s) ==
    [i \in 1..Len(s) |->
        CASE s[i] = "K" -> "k" [] s[i] = "M" -> "m" [] OTHER -> s[i]]

\* s.replace(c, to) for a one-character c
RECURSIVE Replace(_, _, _)
Replace(s, c, to) ==
    IF s = <<>> THEN <<>>
    ELSE (IF Head(s) = c THEN to ELSE <<Head(s)>>) \o Replace(Tail(s), c, to)

\* re.search(r'(\d+)', s).group(1): the first maximal run of digits, <<>>
\* standing for no match
first_digits(s) ==
    IF \A i \in 1..Len(s) : s[i] \notin Digits THEN <<>>
    ELSE LET a == CHOOSE i \in 1..Len(s) :
                      s[i] \in Digits /\ \A j \in 1..(i - 1) : s[j] \notin Digits
             b == CHOOSE i \in a..Len(s) :
                      /\ \A j \in a..i : s[j] \in Digits
                      /\ (i = Len(s) \/ s[i + 1] \notin Digits)
         IN  SubSeq(s, a, b)

\* re.search(r'(\d+)(?:\.ext)?$', u).group(1): the digit run the url ends
\* with, an ending ".ext" set aside; <<>> standing for no match
trailing_digits(u, ext) ==
    LET n == Len(u)
        cut == IF n >= 3 /\ u[n] = ext /\ u[n - 1] = "." /\ u[n - 2] \in Digits
               THEN SubSeq(u, 1, n - 2) ELSE u
        m == Len(cut)
    IN  IF m = 0 \/ cut[m] \notin Digits THEN <<>>
        ELSE LET a == CHOOSE i \in 1..m :
                          /\ \A j \in i..m : cut[j] \in Digits
                          /\ (i = 1 \/ cut[i - 1] \notin Digits)
             IN  SubSeq(cut, a, m)

\* s[-k:]
\* the whole id instead of its last k digits
LastK_all(s, k) == s

LastK(s, k) == SubSeq(s, IF Len(s) > k THEN Len(s) - k + 1 ELSE 1, Len(s))

\* the locators of the on-page view counter, in the order tried
counter_locators(s) ==
    CASE s = "times_of_india" ->
            <<Loc("div", "class", "_1_Akb"), Loc("div", "class", "view-count")>>
      [] s = "hindustan_times" -> <<Loc("span", "class", "viewCount")>>
      [] s = "economic_times" -> <<Loc("div", "class", "view-count")>>

\* find(...) or find(...): the element of the first locator that finds one
RECURSIVE first_found(_, _)
first_found(soup, locators) ==
    IF locators = <<>> THEN None
    ELSE LET e == Find(soup, Head(locators).name, Head(locators).attr,
                       Head(locators).val)
         IN  IF e # None THEN e ELSE first_found(soup, Tail(locators))

\* the element tier 1 reads
views_elem(s, soup) == first_found(soup, counter_locators(s))

\* the text tier 1 searches for digits
views_text(s, elem) ==
    IF s = "times_of_india"
    THEN Replace(Replace(Lower(Strip(elem.text)), "k", <<"0", "0", "0">>),
                 "m", <<"0", "0", "0", "0", "0", "0">>)
    ELSE Strip(elem.text)

\* the default range of tier 3 and of the except branch
default_views(s, rnd) ==
    CASE s = "times_of_india" -> randint(100000, 500000, rnd)
      [] s = "hindustan_times" -> randint(100, 2000, rnd)
      [] s = "economic_times" -> randint(100, 3000, rnd)

\* id_views with the random offset taken off instead of added
id_views_minus(s, article_id, rnd) ==
    CASE s = "times_of_india" ->
            ToInt(LastK(article_id, 4)) * 100 - randint(50000, 200000, rnd)
      [] s = "hindustan_times" ->
            ToInt(LastK(article_id, 2)) * 10 - randint(50, 500, rnd)
      [] s = "economic_times" ->
            ToInt(LastK(article_id, 3)) * 5 - randint(100, 1000, rnd)

\* tier 2 from the digits of the url's numeric id
id_views(s, article_id, rnd) ==
    CASE s = "times_of_india" ->
            ToInt(LastK(article_id, 4)) * 100 + randint(50000, 200000, rnd)
      [] s = "hindustan_times" ->
            ToInt(LastK(article_id, 2)) * 10 + randint(50, 500, rnd)
      [] s = "economic_times" ->
            ToInt(LastK(article_id, 3)) * 5 + randint(100, 1000, rnd)

\* tiers 2 and 3, reached when tier 1 returned nothing
estimate_views(s, u, rnd) ==
    IF s = "times_of_india"
    THEN LET article_id == Head(Split(Last(Split(u, "/")), "."))
         IN  IF article_id # <<>>
                /\ \A i \in 1..Len(article_id) :
                       article_id[i] \in Digits \cup OddDigits
             THEN IF \E i \in 1..Len(LastK(article_id, 4)) :
                         LastK(article_id, 4)[i] \in OddDigits
                  THEN default_views(s, rnd)      \* int() raised: except branch
                  ELSE id_views(s, article_id, rnd)
             ELSE default_views(s, rnd)
    ELSE LET article_id ==
                 trailing_digits(u, IF s = "hindustan_times" THEN "html" ELSE "cms")
         IN  IF article_id # <<>> THEN id_views(s, article_id, rnd)
             ELSE default_views(s, rnd)

\* extract_views(article_soup, article_url); a None soup raises inside the
\* try and takes the except branch
extract_views(s, soup, u, rnd) ==
    IF soup = None THEN default_views(s, rnd)
    ELSE LET elem == views_elem(s, soup)
             digits == IF elem = None THEN <<>>
                       ELSE first_digits(views_text(s, elem))
         IN  IF digits # <<>> THEN ToInt(digits)
             ELSE estimate_views(s, u, rnd)

---------------------------------------------------------------------------
(* parse_article *)

\* the try block of parse_article on a fetched soup
article_record(s, soup, u, rnd, now) ==
    [id |-> article_id_of(s, u),
     url |-> u,
     title |-> extract_field(s, soup, title_candidates(s), no_title),
     content |-> extract_field(s, soup, content_candidates(s), <<>>),
     published_date |-> extract_field(s, soup, date_candidates(s), <<>>),
     category |-> url_category(u),
     source |-> name_of(s),
     views |-> extract_views(s, soup, u, rnd),
     crawled_at |-> now]

\* parse_article, given the response to the fetch of the article page: the
\* fetch stands before the try, whose except branch gives None
parse_article(s, response, u, rnd, now) ==
    LET soup == get_soup(response)
    IN  IF soup.raised THEN soup
        ELSE IF soup.val = None THEN Returned(None)
        ELSE Returned(article_record(s, soup.val, u, rnd, now))

---------------------------------------------------------------------------
(* The crawler's own variables while a single call is studied *)

\* os.environ as far as the program reads it: each variable is unset
\* (os.getenv gives None), empty or has a value
EnvValues == {"unset", "", "value"}

Environments == [TELEGRAM_BOT_TOKEN : EnvValues, TELEGRAM_CHAT_ID : EnvValues]

EmptyEnv == [TELEGRAM_BOT_TOKEN |-> "unset", TELEGRAM_CHAT_ID |-> "unset"]

CrawlIdle ==
    /\ env = EmptyEnv
    /\ website = 0
    /\ article_urls = <<>>
    /\ idx = 0
    /\ delay = 0
    /\ results = <<>>
    /\ log = <<>>
    /\ exc = None

---------------------------------------------------------------------------
(* Link discovery on its own: one call of get_article_urls per behaviour *)

\* the path of an article of site s with numeric id n, first url pattern
article_path(s, n) ==
    CASE s = "times_of_india" ->
            <<"/", "india", "/", "articleshow", "/">> \o n \o <<".", "cms">>
      [] s = "hindustan_times" ->
            <<"/", "india", "-", "news", "/", "story", "-", "abc", "-">>
                \o n \o <<".", "html">>
      [] s = "economic_times" ->
            <<"/", "markets", "/", "articleshow", "/">> \o n \o <<".", "cms">>

\* the same with the site's other pattern (Times of India has one only)
other_path(s, n) ==
    CASE s = "times_of_india" ->
            <<"/", "world", "/", "articleshow", "/">> \o n \o <<".", "cms">>
      [] s = "hindustan_times" ->
            <<"/", "article", "-">> \o n \o <<".", "html">>
      [] s = "economic_times" ->
            <<"/", "prime", "/", "news", "/">> \o n \o <<".", "cms">>

\* hrefs of a listing page: an absolute path, the same article as an
\* absolute url, a relative path, a navigation link, a reference urljoin
\* rejects, and an article on another host
Hrefs(s) ==
    { article_path(s, <<"1", "2", "3">>),
      base_url(s) \o article_path(s, <<"1", "2", "3">>),
      Tail(other_path(s, <<"4", "5">>)),
      <<"/", "india">>,
      <<"/", "/", "[">> \o article_path(s, <<"6">>),
      <<"http:", "/", "/", "other", ".", "com">> \o other_path(s, <<"1", "2", "3">>) }

SeqsUpTo(S, n) == UNION {[1..k -> S] : k \in 0..n}

ListingResponses(s) ==
    {RequestException, OtherException, EmptyBody, RejectedMarkup}
    \cup {Page([i \in 1..Len(hs) |-> Anchor(hs[i])]) :
              hs \in SeqsUpTo(Hrefs(s), MaxAnchors)}

InitLinks ==
    /\ pc = "call"
    /\ CrawlIdle
    /\ limit = 0 /\ articles = <<>> /\ files = <<>>
    /\ scraper \in ScraperSet
    /\ page \in ListingResponses(scraper)
    /\ url = <<>>
    /\ ret = None

CallGetArticleUrls ==
    /\ pc = "call"
    /\ ret' = get_article_urls(scraper, page)
    /\ pc' = "done"
    /\ UNCHANGED <<scraper, page, url, limit, articles, files>>
    /\ UNCHANGED crawlVars
    /\ UNCHANGED env

NextLinks == CallGetArticleUrls

SpecLinks == InitLinks /\ [][NextLinks]_vars

IsAbsolute(u) == u # <<>> /\ Head(u) \in Schemes

NoDuplicates(l) == \A i, j \in 1..Len(l) : l[i] = l[j] => i = j

\* the anchors of the page that carry an article href
ArticleAnchors(s, elems) ==
    {i \in 1..Len(elems) : \E p \in url_patterns(s) : Contains(elems[i].href, p)}

\* the position of the first anchor of the page that resolves to u (0: none)
FirstOccurrence(s, elems, u) ==
    LET at == {i \in ArticleAnchors(s, elems) :
                  urljoin(base_url(s), elems[i].href) = Returned(u)}
    IN  IF at = {} THEN 0 ELSE CHOOSE i \in at : \A j \in at : i <= j

\* C6: the list get_article_urls returns holds no url twice, holds only
\* absolute urls, and lists the urls in the order in which each first
\* occurs among the page's anchors.
C6_LinksDistinctAbsoluteOrdered ==
    (pc = "done" /\ ~ret.raised /\ page.kind = "page") =>
        LET l == ret.val
        IN  /\ NoDuplicates(l)
            /\ \A i \in 1..Len(l) : IsAbsolute(l[i])
            /\ \A i \in 1..Len(l) : FirstOccurrence(scraper, page.elems, l[i]) > 0
            /\ \A i, j \in 1..Len(l) :
                   i < j => FirstOccurrence(scraper, page.elems, l[i])
                              < FirstOccurrence(scraper, page.elems, l[j])
            /\ \A k \in ArticleAnchors(scraper, page.elems) :
                   \E i \in 1..Len(l) :
                       Returned(l[i]) = urljoin(base_url(scraper), page.elems[k].href)

\* a page whose second anchor names the first one's article again, as an
\* absolute url after a relative one, and whose third is another article
C6_Witness ==
    /\ pc = "done" /\ ~ret.raised /\ page.kind = "page"
    /\ Len(page.elems) = 3
    /\ ~IsAbsolute(page.elems[1].href)
    /\ IsAbsolute(page.elems[2].href)
    /\ urljoin(base_url(scraper), page.elems[1].href) = Returned(page.elems[2].href)
    /\ Len(ret.val) = 2

---------------------------------------------------------------------------
(* The view estimate on its own: one call of extract_views, or of          *)
(* parse_article on the same page, per behaviour                           *)

CounterTexts ==
    { <<>>, <<"v">>, <<" ", "1", "2", " ">>, <<"3", "K">>,
      <<"1", ".", "5", "m">>, <<"7", "v", "8">> }

\* the elements a counter locator of s can find, and a headline
CounterElements(s) ==
    { Tag(counter_locators(s)[i].name, "class", counter_locators(s)[i].val, t) :
          i \in 1..Len(counter_locators(s)), t \in CounterTexts }
    \cup {Tag("h1", "", "", <<"4", "2">>)}

\* urls with a numeric id of five digits and of one, with no id, with an
\* id str.isdigit() accepts and int() rejects, and with a query string
ViewUrls(s) ==
    { base_url(s) \o article_path(s, <<"1", "2", "3", "4", "5">>),
      base_url(s) \o other_path(s, <<"7">>),
      base_url(s) \o <<"/", "india">>,
      base_url(s) \o <<"/", "articleshow", "/", "1", "sup2", ".", "cms">>,
      base_url(s) \o <<"/", "story", "-", "9", "0">>,
      base_url(s) \o article_path(s, <<"8", "8">>) \o <<"?", "from", "=", "mdr">> }

InitViews ==
    /\ pc = "call"
    /\ CrawlIdle
    /\ limit = 0 /\ articles = <<>> /\ files = <<>>
    /\ scraper \in ScraperSet
    /\ page \in {None} \cup {Soup(es) : es \in SeqsUpTo(CounterElements(scraper), MaxCounters)}
    /\ url \in ViewUrls(scraper)
    /\ ret = None

CallExtractViews ==
    /\ pc = "call"
    /\ \E rnd \in 0..RandSteps :
           ret' = Returned(extract_views(scraper, page, url, rnd))
    /\ pc' = "done"
    /\ UNCHANGED <<scraper, page, url, limit, articles, files>>
    /\ UNCHANGED crawlVars
    /\ UNCHANGED env

\* parse_article on a fetch that gives the same page
CallParseOnPage ==
    /\ pc = "call"
    /\ page # None
    /\ \E rnd \in 0..RandSteps :
           ret' = parse_article(scraper, Page(page.elems), url, rnd, 0)
    /\ pc' = "parsed"
    /\ UNCHANGED <<scraper, page, url, limit, articles, files>>
    /\ UNCHANGED crawlVars
    /\ UNCHANGED env

NextViews == CallExtractViews \/ CallParseOnPage

SpecViews == InitViews /\ [][NextViews]_vars

\* the counter elements of the page: what each counter locator finds
CounterCandidates(s, soup) ==
    {Find(soup, counter_locators(s)[i].name, counter_locators(s)[i].attr,
          counter_locators(s)[i].val) : i \in 1..Len(counter_locators(s))}
    \ {None}

\* those whose text holds a digit sequence
UsableCounters(s, soup) ==
    {e \in CounterCandidates(s, soup) : first_digits(views_text(s, e)) # <<>>}

\* C4: whenever any counter locator of the adapter finds an element whose
\* text holds a digit sequence, extract_views returns the number read from
\* such a counter element, never a synthetic value.
C4_Tier1AlwaysWins ==
    (pc = "done" /\ page # None /\ UsableCounters(scraper, page) # {}) =>
        \E e \in UsableCounters(scraper, page) :
            ret.val = ToInt(first_digits(views_text(scraper, e)))

\* C5: extract_views returns an integer >= 0 on every input, a None page
\* (which raises inside it) included, and every record parse_article
\* returns carries such a views field.
C5_ViewsNonNegative ==
    /\ pc = "done" => (~ret.raised /\ ret.val \in Nat)
    /\ (pc = "parsed" /\ ~ret.raised /\ ret.val # None) =>
           ("views" \in DOMAIN ret.val /\ ret.val.views \in Nat)

\* the except branch taken: no usable counter on the page and an id that
\* str.isdigit() accepts and int() rejects
C5_Witness ==
    /\ pc = "done" /\ page # None /\ scraper = "times_of_india"
    /\ UsableCounters(scraper, page) = {}
    /\ Contains(url, <<"sup2">>)
    /\ ret.val \in Nat

\* the longest run of decimal digits at the end of s
NumericTail(s) ==
    LET starts == {i \in 1..(Len(s) + 1) : \A j \in i..Len(s) : s[j] \in Digits}
    IN  SubSeq(s, CHOOSE i \in starts : \A j \in starts : i <= j, Len(s))

\* the numeric id the url carries (<<>>: none).  Times of India: the last
\* path segment up to its first dot, when it is decimal digits throughout.
\* Hindustan Times: the digits the url ends with, a final .html set aside.
NumericId(s, u) ==
    IF s = "times_of_india"
    THEN LET seg == Last(Split(u, "/"))
             dots == {i \in 1..Len(seg) : seg[i] = "."}
             stem == IF dots = {} THEN seg
                     ELSE SubSeq(seg, 1, (CHOOSE i \in dots : \A j \in dots : i <= j) - 1)
         IN  IF NumericTail(stem) = stem THEN stem ELSE <<>>
    ELSE IF NumericTail(u) # <<>> THEN NumericTail(u)
         ELSE IF Len(u) >= 2 /\ SubSeq(u, Len(u) - 1, Len(u)) = <<".", "html">>
              THEN NumericTail(SubSeq(u, 1, Len(u) - 2))
              ELSE <<>>

\* the value of the last n digits of a numeric id
LastDigitsValue(id, n) ==
    ToInt(SubSeq(id, IF Len(id) > n THEN Len(id) - n + 1 ELSE 1, Len(id)))

---------------------------------------------------------------------------
(* Field extraction on its own: one call of parse_article per behaviour *)

\* an element the locator finds, blank or with a text naming the locator
ElementOf(loc, blank) ==
    LET text == IF blank THEN <<" ">>
                ELSE <<" ", IF loc.val = "" THEN loc.name ELSE loc.val, " ">>
    IN  IF loc.name = "meta" THEN Meta(loc.val, text)
        ELSE Tag(loc.name, loc.attr, loc.val, text)

\* the locators whose elements the pages are made of: every title locator,
\* the first two content locators, the first and the last date locator
PageLocators(s) ==
    {title_candidates(s)[i] : i \in 1..Len(title_candidates(s))}
    \cup {content_candidates(s)[i] :
              i \in {j \in 1..Len(content_candidates(s)) : j <= 2}}
    \cup {date_candidates(s)[1], Last(date_candidates(s))}

FieldElements(s) ==
    {ElementOf(loc, b) : loc \in PageLocators(s), b \in BOOLEAN}
    \cup {MetaNoContent(loc.val) : loc \in {l \in PageLocators(s) : l.name = "meta"}}

InitParse ==
    /\ pc = "call"
    /\ CrawlIdle
    /\ limit = 0 /\ articles = <<>> /\ files = <<>>
    /\ scraper \in ScraperSet
    /\ page \in {RequestException, OtherException, EmptyBody, RejectedMarkup}
               \cup {Page(es) : es \in SeqsUpTo(FieldElements(scraper), MaxElems)}
    /\ url = base_url(scraper) \o article_path(scraper, <<"1", "2", "3">>)
    /\ ret = None

CallParseArticle ==
    /\ pc = "call"
    /\ \E rnd \in 0..RandSteps :
           ret' = parse_article(scraper, page, url, rnd, 0)
    /\ pc' = "parsed"
    /\ UNCHANGED <<scraper, page, url, limit, articles, files>>
    /\ UNCHANGED crawlVars
    /\ UNCHANGED env

NextParse == CallParseArticle

SpecParse == InitParse /\ [][NextParse]_vars

\* what rule i of a chain yields on the page: "absent" when its locator
\* finds no element, else the trimmed value of the element it finds
RuleValue(soup, candidates, i) ==
    LET e == Find(soup, candidates[i].name, candidates[i].attr, candidates[i].val)
    IN  IF e = None THEN <<"absent">>
        ELSE IF e.name = "meta"
             THEN <<"found", Strip(IF e.has_content THEN e.content ELSE <<>>)>>
             ELSE <<"found", Strip(e.text)>>

Blank(soup, candidates, i) == RuleValue(soup, candidates, i) = <<"found", <<>>>>

Succeeds(soup, candidates, i) ==
    /\ RuleValue(soup, candidates, i)[1] = "found"
    /\ RuleValue(soup, candidates, i)[2] # <<>>

\* the field is the value of the first rule that succeeds, whenever a
\* rule that found a blank element stands before one that succeeds
FallsThrough(soup, candidates, field) ==
    (\E i, j \in 1..Len(candidates) :
         i < j /\ Blank(soup, candidates, i) /\ Succeeds(soup, candidates, j))
    => \E k \in 1..Len(candidates) :
           /\ Succeeds(soup, candidates, k)
           /\ \A l \in 1..(k - 1) : ~Succeeds(soup, candidates, l)
           /\ field = RuleValue(soup, candidates, k)[2]

ParsedRecord == pc = "parsed" /\ ~ret.raised /\ ret.val # None

\* C2: in every field chain (title, content, date) of every adapter, when
\* an earlier locator finds a blank element and a later one a non-blank
\* one, the field is the value of the first non-blank candidate in rule
\* order.
C2_BlankFallsThrough ==
    ParsedRecord =>
        /\ FallsThrough(Soup(page.elems), title_candidates(scraper), ret.val.title)
        /\ FallsThrough(Soup(page.elems), content_candidates(scraper), ret.val.content)
        /\ FallsThrough(Soup(page.elems), date_candidates(scraper),
                        ret.val.published_date)

\* a title chain whose first matching rule finds a blank element and whose
\* later rule gives the title
C2_Witness ==
    /\ ParsedRecord
    /\ \E i, j \in 1..Len(title_candidates(scraper)) :
           /\ i < j
           /\ Blank(Soup(page.elems), title_candidates(scraper), i)
           /\ Succeeds(Soup(page.elems), title_candidates(scraper), j)
    /\ ret.val.title \notin {<<>>, no_title}

NoRuleSucceeds(soup, candidates) ==
    \A i \in 1..Len(candidates) : ~Succeeds(soup, candidates, i)

\* C3: when no title rule succeeds (each locator finds nothing or a blank
\* element) the title is the "no title" sentinel, and when no content or
\* date rule succeeds the content and the date are the empty string.
C3_SentinelWhenNoRuleSucceeds ==
    ParsedRecord =>
        /\ NoRuleSucceeds(Soup(page.elems), title_candidates(scraper))
              => ret.val.title = no_title
        /\ NoRuleSucceeds(Soup(page.elems), content_candidates(scraper))
              => ret.val.content = <<>>
        /\ NoRuleSucceeds(Soup(page.elems), date_candidates(scraper))
              => ret.val.published_date = <<>>

---------------------------------------------------------------------------
(* The archive: _save_raw_data and get_all_articles *)

\* json.dump(article, f): the object's members in the dict's order
FieldOrder ==
    <<"id", "url", "title", "content", "published_date", "category",
      "source", "views", "crawled_at">>

\* json_dump leaving the timestamp out
json_dump_no_timestamp(article) ==
    LET keys == SelectSeq(FieldOrder,
                          LAMBDA k : k \in DOMAIN article /\ k # "crawled_at")
    IN  [i \in 1..Len(keys) |-> <<keys[i], article[keys[i]]>>]

json_dump(article) ==
    LET keys == SelectSeq(FieldOrder, LAMBDA k : k \in DOMAIN article)
    IN  [i \in 1..Len(keys) |-> <<keys[i], article[keys[i]]>>]

\* json.load(f): the dict of the members
json_load(text) ==
    [k \in {text[i][1] : i \in 1..Len(text)} |->
        LET i == CHOOSE j \in 1..Len(text) : text[j][1] = k IN text[i][2]]

\* os.path.join(category_dir, f"{article_id}.json") under raw_dir
file_path(site, category, article_id) ==
    <<site, IF category = "" THEN site ELSE category, article_id \o <<".json">>>>

\* open(filename, 'w') raises when the id names a directory that does not
\* exist (an id with a '/') or when the disk refuses the write
open_raises(article_id, disk_fails) == disk_fails \/ Contains(article_id, <<"/">>)

\* the for loop of _save_raw_data from record k on; fail_at is the record
\* at which the disk refuses the write (0: at none).  An exception leaves
\* the loop with the records before it written
RECURSIVE save_loop(_, _, _, _, _, _)
save_loop(fs, site, category, arts, k, fail_at) ==
    IF k > Len(arts) THEN [raised |-> FALSE, files |-> fs]
    ELSE IF open_raises(arts[k].id, k = fail_at)
    THEN [raised |-> TRUE, files |-> fs]
    ELSE LET path == file_path(site, category, arts[k].id)
         IN  save_loop([q \in DOMAIN fs \cup {path} |->
                           IF q = path THEN json_dump(arts[k]) ELSE fs[q]],
                       site, category, arts, k + 1, fail_at)

\* _save_raw_data(website, category, articles); category "" is None
save_raw_data(fs, site, category, arts, fail_at) ==
    save_loop(fs, site, category, arts, 1, fail_at)

\* get_all_articles: the files of the tree in the order os.listdir gives
\* them, order being a sequence of all paths; only *.json files are read
get_all_articles(fs, order) ==
    LET named == SelectSeq(order, LAMBDA q : q[3] # <<>> /\ Last(q[3]) = ".json")
    IN  [i \in 1..Len(named) |-> json_load(fs[named[i]])]

---------------------------------------------------------------------------
(* Ranking: sort_articles_by_views and get_top_articles *)

\* x.get('views', 0)
views_key(x) == IF "views" \in DOMAIN x THEN x.views ELSE 0

\* insert_desc putting x before the records of equal views
insert_desc_before_ties(sorted, x) ==
    LET ahead == {i \in 1..Len(sorted) : views_key(sorted[i]) > views_key(x)}
    IN  SubSeq(sorted, 1, Cardinality(ahead)) \o <<x>>
            \o SubSeq(sorted, Cardinality(ahead) + 1, Len(sorted))

\* x put into a list sorted by views descending, after the records of
\* equal views
insert_desc(sorted, x) ==
    LET ahead == {i \in 1..Len(sorted) : views_key(sorted[i]) >= views_key(x)}
    IN  SubSeq(sorted, 1, Cardinality(ahead)) \o <<x>>
            \o SubSeq(sorted, Cardinality(ahead) + 1, Len(sorted))

\* sorted(articles, key=views, reverse=True): a stable sort
RECURSIVE sort_articles_by_views(_)
sort_articles_by_views(arts) ==
    IF arts = <<>> THEN <<>>
    ELSE insert_desc(sort_articles_by_views(SubSeq(arts, 1, Len(arts) - 1)),
                     Last(arts))

\* sorted_articles[:limit] for a limit >= 0
get_top_articles(lim, arts) ==
    LET sorted_articles == sort_articles_by_views(arts)
    IN  SubSeq(sorted_articles, 1,
               IF lim < Len(sorted_articles) THEN lim ELSE Len(sorted_articles))

---------------------------------------------------------------------------
(* Ranking on its own: get_top_articles, then again on its own result *)

RankRecords ==
    { [id |-> "a", views |-> 50], [id |-> "b", views |-> 200],
      [id |-> "c", views |-> 10], [id |-> "d", views |-> 50],
      [id |-> "e"], [id |-> "f", views |-> 0] }

InitRank ==
    /\ pc = "call"
    /\ CrawlIdle
    /\ scraper = "" /\ page = None /\ url = <<>> /\ ret = None /\ files = <<>>
    /\ articles \in SeqsUpTo(RankRecords, MaxRecords)
    /\ limit \in 0..MaxLimit

CallGetTopArticles ==
    /\ pc = "call"
    /\ ret' = Returned(get_top_articles(limit, articles))
    /\ pc' = "done"
    /\ UNCHANGED <<scraper, page, url, limit, articles, files>>
    /\ UNCHANGED crawlVars
    /\ UNCHANGED env

CallGetTopArticlesAgain ==
    /\ pc = "done"
    /\ ret' = Returned(get_top_articles(limit, ret.val))
    /\ pc' = "again"
    /\ UNCHANGED <<scraper, page, url, limit, articles, files>>
    /\ UNCHANGED crawlVars
    /\ UNCHANGED env

NextRank == CallGetTopArticles \/ CallGetTopArticlesAgain

SpecRank == InitRank /\ [][NextRank]_vars

\* the orders of the positions of l: by views descending, equal views by
\* position
RankOrders(l) ==
    {q \in [1..Len(l) -> 1..Len(l)] :
        /\ \A i, j \in 1..Len(l) : q[i] = q[j] => i = j
        /\ \A i, j \in 1..Len(l) :
               i < j => \/ views_key(l[q[i]]) > views_key(l[q[j]])
                        \/ /\ views_key(l[q[i]]) = views_key(l[q[j]])
                           /\ q[i] < q[j]}

\* C8: get_top_articles(limit, records) is the first limit elements of the
\* records ordered by views descending, records of equal views keeping
\* their input order; applied to its own result it returns the same list.
C8_TopIsStableDescendingPrefix ==
    pc \in {"done", "again"} =>
        \E q \in RankOrders(articles) :
            ret.val = [i \in 1..(IF limit < Len(articles) THEN limit
                                 ELSE Len(articles)) |-> articles[q[i]]]

\* two records of equal views both returned, a third cut off by the limit,
\* and the second call made
C8_Witness ==
    /\ pc = "again"
    /\ limit < Len(articles)
    /\ Len(ret.val) >= 2
    /\ \E i, j \in 1..Len(ret.val) :
           i # j /\ ret.val[i] # ret.val[j]
           /\ views_key(ret.val[i]) = views_key(ret.val[j])

---------------------------------------------------------------------------
(* The archive on its own: the records of one site crawl saved into an     *)
(* empty raw_dir and read back                                             *)

\* urls of one listing: two articles, two more urls whose id is the first
\* one's, and a url whose Hindustan Times id holds a '/'
StoreUrls(s) ==
    { base_url(s) \o article_path(s, <<"1", "2", "3">>),
      base_url(s) \o article_path(s, <<"7">>),
      base_url(s) \o other_path(s, <<"1", "2", "3">>),
      base_url(s) \o article_path(s, <<"1", "2", "3">>) \o <<"?", "from", "=", "mdr">>,
      base_url(s) \o <<"/", "story", "-", "x", "/", "foo", ".", "html">> }

\* the records crawl_articles returns for a list of distinct urls
CrawledRecords(s, us) ==
    [i \in 1..Len(us) |->
        article_record(s, Soup(<<Tag("h1", "", "", <<"t">>)>>), us[i], 0, i)]

InitStore ==
    /\ pc = "call"
    /\ CrawlIdle
    /\ page = None /\ url = <<>> /\ ret = None /\ limit = 0
    /\ files = <<>>
    /\ scraper \in ScraperSet
    /\ \E us \in SeqsUpTo(StoreUrls(scraper), MaxRecords) :
           /\ NoDuplicates(us)
           /\ articles = CrawledRecords(scraper, us)

CallSaveRawData ==
    /\ pc = "call"
    /\ LET r == save_raw_data(files, scraper, "", articles, 0)
       IN  /\ files' = r.files
           /\ pc' = IF r.raised THEN "raised" ELSE "saved"
    /\ UNCHANGED <<scraper, page, url, ret, limit, articles>>
    /\ UNCHANGED crawlVars
    /\ UNCHANGED env

CallGetAllArticles ==
    /\ pc = "saved"
    /\ \E order \in [1..Cardinality(DOMAIN files) -> DOMAIN files] :
           /\ \A i, j \in DOMAIN order : order[i] = order[j] => i = j
           /\ ret' = Returned(get_all_articles(files, order))
    /\ pc' = "loaded"
    /\ UNCHANGED <<scraper, page, url, limit, articles, files>>
    /\ UNCHANGED crawlVars
    /\ UNCHANGED env

NextStore == CallSaveRawData \/ CallGetAllArticles

SpecStore == InitStore /\ [][NextStore]_vars

\* how often x stands in the list l
Count(l, x) == Cardinality({i \in 1..Len(l) : l[i] = x})

LastPerId(l) ==
    {l[i] : i \in {k \in 1..Len(l) : \A j \in (k + 1)..Len(l) : l[j].id # l[k].id}}

---------------------------------------------------------------------------
(* crawl_all: every scraper in turn through crawl_articles, the records of *)
(* each handed to _save_raw_data                                           *)

\* the default config's delay range, in seconds
delay_min == 2

delay_max == 5

\* a draw outside the range
uniform_beyond(a, b, rnd) == b + 1 + rnd

\* random.uniform(a, b), the draw given by rnd in 0..RandSteps
uniform(a, b, rnd) == randint(a, b, rnd)

\* what the listing page of a site can answer in a run: a failed request,
\* an exception of another class, a page with a reference urljoin
\* rejects, a page with one article link, a page with three (two of them
\* to one article)
CrawlListings(s) ==
    { RequestException, OtherException,
      Page(<<Anchor(<<"/", "/", "[">> \o article_path(s, <<"6">>))>>),
      Page(<<Anchor(article_path(s, <<"7">>))>>),
      Page(<<Anchor(article_path(s, <<"1", "2", "3">>)),
             Anchor(<<"/", "india">>),
             Anchor(base_url(s) \o article_path(s, <<"1", "2", "3">>)),
             Anchor(other_path(s, <<"1", "2", "3">>)),
             Anchor(article_path(s, <<"7">>))>>) }

\* what an article page can answer: a failed request, an exception of
\* another class, markup the parser rejects, a page with a headline and a
\* view counter
CrawlArticles(s) ==
    { RequestException, OtherException, RejectedMarkup,
      Page(<<Tag("h1", "", "", <<"t">>),
             Tag(counter_locators(s)[1].name, "class", counter_locators(s)[1].val,
                 <<"1", "2">>)>>) }

Event(op, u, kind) == [op |-> op, url |-> u, kind |-> kind]

\* config['categories']: the category list of each site
categories(s) ==
    CASE s = "times_of_india"  -> <<"india", "world", "business">>
      [] s = "hindustan_times" -> <<"india-news", "world-news", "business">>
      [] s = "economic_times"  -> <<"news", "markets", "industry">>

\* the url get_article_urls requests: the category page when a category
\* is given, else the home page ("" stands for category=None)
listing_url(s, category) ==
    IF category # "" THEN base_url(s) \o <<"/", category>> ELSE base_url(s)

\* a slice that does not cut
Min_uncapped(a, b) == b

Min(a, b) == IF a < b THEN a ELSE b

Site == Scrapers[website]

Init ==
    /\ pc = "crawl_all"
    /\ scraper = "" /\ page = None /\ url = <<>> /\ ret = None /\ limit = 0
    /\ website = 0
    /\ article_urls = <<>>
    /\ idx = 0
    /\ articles = <<>>
    /\ delay = 0
    /\ results = <<>>
    /\ files = <<>>
    /\ log = <<>>
    /\ exc = None
    /\ env = EmptyEnv

\* for website, scraper in self.scrapers.items(): the next scraper
NextWebsite ==
    /\ pc = "crawl_all"
    /\ website < Len(Scrapers)
    /\ website' = website + 1
    /\ pc' = "get_article_urls"
    /\ UNCHANGED <<article_urls, idx, articles, delay, results, files, log, exc>>
    /\ UNCHANGED callVars
    /\ UNCHANGED env

\* return results, the loop over
ReturnResults ==
    /\ pc = "crawl_all"
    /\ website = Len(Scrapers)
    /\ pc' = "returned"
    /\ UNCHANGED <<website, article_urls, idx, articles, delay, results, files,
                   log, exc>>
    /\ UNCHANGED callVars
    /\ UNCHANGED env

\* crawl_articles up to its for loop: the listing (crawl_all passes no
\* category, so category is None), the warning and [] when no url was
\* found, else the cap; page keeps the listing's response
GetArticleUrls ==
    /\ pc = "get_article_urls"
    /\ \E response \in CrawlListings(Site) :
         LET found == get_article_urls(Site, response)
         IN  /\ page' = response
             /\ log' = Append(log, Event("get", listing_url(Site, ""), response.kind))
             /\ IF found.raised
                THEN /\ pc' = "raised"
                     /\ exc' = [at |-> "get_article_urls", site |-> Site,
                                 error |-> found.val]
                     /\ UNCHANGED <<article_urls, idx, articles>>
                ELSE IF found.val = <<>>
                THEN /\ pc' = "save"
                     /\ articles' = <<>>
                     /\ article_urls' = <<>>
                     /\ UNCHANGED <<idx, exc>>
                ELSE /\ pc' = "sleep"
                     /\ article_urls' =
                            SubSeq(found.val, 1,
                                   Min(max_articles_per_website, Len(found.val)))
                     /\ idx' = 1
                     /\ articles' = <<>>
                     /\ exc' = exc
    /\ UNCHANGED <<website, delay, results, files>>
    /\ UNCHANGED <<scraper, url, ret, limit>>
    /\ UNCHANGED env

\* the body of the for loop up to the fetch: time.sleep(random.uniform(...))
Sleep ==
    /\ pc = "sleep"
    /\ \E rnd \in 0..RandSteps : delay' = uniform(delay_min, delay_max, rnd)
    /\ log' = Append(log, Event("sleep", <<>>, ""))
    /\ pc' = "parse_article"
    /\ UNCHANGED <<website, article_urls, idx, articles, results, files, exc>>
    /\ UNCHANGED callVars
    /\ UNCHANGED env

\* the rest of the body: parse_article(url), the record appended when there
\* is one; after the last url crawl_articles returns to crawl_all
ParseArticle ==
    /\ pc = "parse_article"
    /\ \E response \in CrawlArticles(Site), rnd \in 0..RandSteps :
         LET article_data == parse_article(Site, response, article_urls[idx],
                                           rnd, Len(log))
         IN  /\ log' = Append(log, Event("get", article_urls[idx], response.kind))
             /\ IF article_data.raised
                THEN /\ pc' = "raised"
                     /\ exc' = [at |-> "parse_article", site |-> Site,
                                 error |-> article_data.val]
                     /\ UNCHANGED <<idx, articles>>
                ELSE /\ articles' = IF article_data.val # None
                                    THEN Append(articles, article_data.val)
                                    ELSE articles
                     /\ idx' = idx + 1
                     /\ pc' = IF idx < Len(article_urls) THEN "sleep" ELSE "save"
                     /\ exc' = exc
    /\ UNCHANGED <<website, article_urls, delay, results, files>>
    /\ UNCHANGED callVars
    /\ UNCHANGED env

\* results[website] = articles; self._save_raw_data(website, None, articles)
SaveRawData ==
    /\ pc = "save"
    /\ results' = [w \in DOMAIN results \cup {Site} |->
                      IF w = Site THEN articles ELSE results[w]]
    /\ \E fail_at \in 0..Len(articles) :
         LET saved == save_raw_data(files, Site, "", articles, fail_at)
         IN  /\ files' = saved.files
             /\ IF saved.raised
                THEN /\ pc' = "raised"
                     /\ exc' = [at |-> "_save_raw_data", site |-> Site,
                                 error |-> "OSError"]
                ELSE /\ pc' = "crawl_all"
                     /\ exc' = exc
    /\ UNCHANGED <<website, article_urls, idx, articles, delay, log>>
    /\ UNCHANGED callVars
    /\ UNCHANGED env

Next ==
    \/ NextWebsite
    \/ GetArticleUrls
    \/ Sleep
    \/ ParseArticle
    \/ SaveRawData
    \/ ReturnResults

Spec == Init /\ [][Next]_vars

---------------------------------------------------------------------------
(* Claims about the crawl-all run *)

Terminated == pc \in {"returned", "raised"}

\* the listing of site w was requested in this run
Crawled(w) ==
    \E i \in 1..Len(log) : log[i].op = "get" /\ log[i].url = base_url(w)

\* link discovery of site w failed: it raised, or its request gave no page
DiscoveryFailed(w) ==
    \/ exc # None /\ exc.at = "get_article_urls" /\ exc.site = w
    \/ \E i \in 1..Len(log) :
          log[i].op = "get" /\ log[i].url = base_url(w) /\ log[i].kind # "page"

\* every record of l has its file in the archive of site w
Saved(w, l) ==
    \A i \in 1..Len(l) :
        /\ file_path(w, "", l[i].id) \in DOMAIN files
        /\ json_load(files[file_path(w, "", l[i].id)]).id = l[i].id

\* C1: in a crawl-all run in which nothing but link discovery fails, a
\* site whose link discovery fails (returns nothing or raises) contributes
\* zero records, and every other site is still crawled and its records
\* are still saved.
C1_DiscoveryFailureIsolated ==
    (Terminated /\ (exc = None \/ exc.at = "get_article_urls")) =>
        \A w \in ScraperSet :
            /\ Crawled(w)
            /\ w \in DOMAIN results
            /\ DiscoveryFailed(w) => results[w] = <<>>
            /\ Saved(w, results[w])

\* C9: parse_article never propagates an exception to crawl_articles:
\* whatever the fetch or the extraction does, the run does not end with
\* an exception risen in parse_article.
C9_ParseArticleNeverRaises ==
    ~(pc = "raised" /\ exc.at = "parse_article")

\* C10: a disk write failure while persisting a record does not end the
\* run: the other records of the site are written and the remaining
\* sites are crawled and returned.
C10_WriteFailureNotFatal ==
    /\ ~(pc = "raised" /\ exc.at = "_save_raw_data")
    /\ (pc = "returned" /\ exc # None /\ exc.at = "_save_raw_data") =>
           \A w \in ScraperSet : Crawled(w) /\ w \in DOMAIN results

\* the category page of category c of site w was requested in this run
CategoryCrawled(w, c) ==
    \E i \in 1..Len(log) :
        log[i].op = "get" /\ log[i].url = base_url(w) \o <<"/", c>>

\* C14: a crawl-all run that returns has requested the category page of
\* every configured site and every category of that site's category list.
C14_EveryCategoryDiscovered ==
    pc = "returned" =>
        \A w \in ScraperSet :
            \A k \in 1..Len(categories(w)) : CategoryCrawled(w, categories(w)[k])

\* crawl_articles of the current site is past link discovery
InCrawlArticles ==
    \/ pc \in {"sleep", "parse_article", "save"}
    \/ pc = "raised" /\ exc.at = "parse_article"

\* the urls link discovery found for the current site
LinksFound == get_article_urls(Site, page).val

\* the first min(links_found, max_articles) of them
FirstLinks ==
    SubSeq(LinksFound, 1,
           IF Len(LinksFound) < max_articles_per_website
           THEN Len(LinksFound) ELSE max_articles_per_website)

\* the urls of the article requests of the current site, in order
ParseAttempts ==
    LET at == CHOOSE i \in 1..Len(log) :
                  log[i].op = "get" /\ log[i].url = listing_url(Site, "")
        gets == SelectSeq(SubSeq(log, at + 1, Len(log)), LAMBDA e : e.op = "get")
    IN  [i \in 1..Len(gets) |-> gets[i].url]

IsPrefix(a, b) == Len(a) <= Len(b) /\ a = SubSeq(b, 1, Len(a))

ArticleGet(e) == e.op = "get" /\ \A w \in ScraperSet : e.url # listing_url(w, "")

\* C16: a sleep stands between every two article requests, whether the
\* earlier parse gave a record or not, and the sleep just made before a
\* parse has a duration within [delay min, delay max].
C16_SleepBetweenParses ==
    /\ \A i, j \in 1..Len(log) :
           (i < j /\ ArticleGet(log[i]) /\ ArticleGet(log[j])) =>
               \E k \in (i + 1)..(j - 1) : log[k].op = "sleep"
    /\ pc = "parse_article" =>
           /\ log[Len(log)].op = "sleep"
           /\ delay_min <= delay /\ delay <= delay_max

\* two article requests of one site, the first of them failed, and the
\* sleep between them
C16_Witness ==
    \E i \in 1..Len(log) :
        /\ i + 2 <= Len(log)
        /\ ArticleGet(log[i]) /\ log[i].kind = "RequestException"
        /\ log[i + 1].op = "sleep"
        /\ ArticleGet(log[i + 2])

---------------------------------------------------------------------------
(* crawl_articles and crawl_specific_website as functions of the responses *)
(* the site gives: what the forwarder calls                                *)

\* F(v), with v evaluated once
Bind(v, F(_)) == CHOOSE y \in {F(x) : x \in {v}} : TRUE

\* the for loop of crawl_articles from url k on; events is the log so far
RECURSIVE crawl_loop(_, _, _, _, _, _, _)
crawl_loop(s, urls, responses, k, rnd, arts, events) ==
    IF k > Len(urls) THEN [raised |-> FALSE, val |-> arts, log |-> events]
    ELSE Bind(parse_article(s, responses[k], urls[k], rnd, Len(events) + 1),
              LAMBDA article_data :
                  IF article_data.raised
                  THEN [raised |-> TRUE, val |-> article_data.val,
                        log |-> events \o <<Event("sleep", <<>>, ""),
                                            Event("get", urls[k], responses[k].kind)>>]
                  ELSE crawl_loop(s, urls, responses, k + 1, rnd,
                                  IF article_data.val # None
                                  THEN Append(arts, article_data.val) ELSE arts,
                                  events \o <<Event("sleep", <<>>, ""),
                                              Event("get", urls[k], responses[k].kind)>>))

\* crawl_articles(None, max_articles, delay_range) on a listing response
\* and the responses to the article requests, in order
crawl_articles(s, listing, responses, max_articles, rnd, events) ==
    Bind(get_article_urls(s, listing),
         LAMBDA found :
             IF found.raised \/ found.val = <<>>
             THEN [raised |-> found.raised, val |-> found.val,
                   log |-> Append(events, Event("get", listing_url(s, ""), listing.kind))]
             ELSE crawl_loop(s,
                             SubSeq(found.val, 1, Min(max_articles, Len(found.val))),
                             responses, 1, rnd, <<>>,
                             Append(events, Event("get", listing_url(s, ""), listing.kind))))

\* _save_raw_data after the crawl, when the crawl returned
save_crawled(fs, website_name, crawled, fail_at) ==
    IF crawled.raised
    THEN [raised |-> TRUE, val |-> crawled.val, files |-> fs, log |-> crawled.log]
    ELSE Bind(save_raw_data(fs, website_name, "", crawled.val, fail_at),
              LAMBDA saved :
                  [raised |-> saved.raised,
                   val |-> IF saved.raised THEN "OSError" ELSE crawled.val,
                   files |-> saved.files, log |-> crawled.log])

\* crawl_specific_website(website_name, max_articles): the crawl, then
\* _save_raw_data; neither call is guarded
crawl_specific_website(fs, website_name, listing, responses, max_articles, rnd, fail_at, events) ==
    IF website_name \notin ScraperSet
    THEN [raised |-> FALSE, val |-> <<>>, files |-> fs, log |-> events]
    ELSE Bind(crawl_articles(website_name, listing, responses, max_articles, rnd, events),
              LAMBDA crawled : save_crawled(fs, website_name, crawled, fail_at))

---------------------------------------------------------------------------
(* news_forwarder.py: crawl_and_send_news *)

\* max_articles of both crawl_specific_website calls
forwarder_max_articles == 20

\* format_article_message(article): the parts the text is made of; the
\* count is shown in the unit given, to one decimal
format_article_message(article) ==
    LET view_count == IF "views" \in DOMAIN article THEN article.views ELSE 0
    IN  [title |-> article.title,
         category_text |-> IF article.category # <<>>
                           THEN <<" ", "[">> \o article.category \o <<"]">>
                           ELSE <<>>,
         view_count_str |-> IF view_count >= 1000000 THEN <<view_count, "M">>
                            ELSE IF view_count >= 1000 THEN <<view_count, "K">>
                            ELSE <<view_count, "">>,
         published_date |-> article.published_date,
         url |-> article.url,
         source |-> article.source]

\* bot.send_message(chat_id, text, parse_mode) as the log has it
Sent(text, parse_mode, ok) ==
    [op |-> "send", url |-> <<>>, kind |-> IF ok THEN "ok" ELSE "failed",
     text |-> text, parse_mode |-> parse_mode]

\* the listing of a site in a forwarder run: a failed request, an
\* exception of another class, one article link, two
ForwardListings(s) ==
    { RequestException, OtherException,
      Page(<<Anchor(article_path(s, <<"7">>))>>),
      Page(<<Anchor(article_path(s, <<"7">>)), Anchor(article_path(s, <<"8">>))>>) }

\* an article page in a forwarder run: a failed request, markup the parser
\* rejects, a page with a headline and a view counter
ForwardArticles(s) ==
    { RequestException, RejectedMarkup,
      Page(<<Tag("h1", "", "", <<"t">>),
             Tag(counter_locators(s)[1].name, "class", counter_locators(s)[1].val,
                 <<"1", "2">>)>>) }

\* the number of article requests a listing response can lead to
LinksOn(s, listing) ==
    LET found == get_article_urls(s, listing)
    IN  IF found.raised THEN 0 ELSE Len(found.val)

InitForward ==
    /\ pc = "crawl_and_send_news"
    /\ env \in Environments
    /\ scraper = "" /\ page = None /\ url = <<>> /\ ret = None /\ limit = 0
    /\ website = 0
    /\ article_urls = <<>>
    /\ idx = 0
    /\ articles = <<>>
    /\ delay = 0
    /\ results = <<>>
    /\ files = <<>>
    /\ log = <<>>
    /\ exc = None

\* a test that fails only when both are missing
credentials_missing_both(e) ==
    e.TELEGRAM_BOT_TOKEN \in {"unset", ""} /\ e.TELEGRAM_CHAT_ID \in {"unset", ""}

\* not bot_token or not chat_id: None and '' are both false
credentials_missing(e) ==
    e.TELEGRAM_BOT_TOKEN \in {"unset", ""} \/ e.TELEGRAM_CHAT_ID \in {"unset", ""}

\* lines 81-88: the credentials read and tested
CheckCredentials ==
    /\ pc = "crawl_and_send_news"
    /\ IF credentials_missing(env)
       THEN /\ ret' = Returned(FALSE)
            /\ pc' = "returned"
       ELSE /\ ret' = ret
            /\ pc' = "send_start"
    /\ UNCHANGED <<scraper, page, url, limit, articles, files, env>>
    /\ UNCHANGED crawlVars

\* a status message sent inside the outer try: a failure goes to the
\* except clause of line 178
SendStatus(at, text, next) ==
    /\ pc = at
    /\ \E ok \in BOOLEAN :
         /\ log' = Append(log, Sent(text, "", ok))
         /\ IF ok THEN pc' = next /\ exc' = exc
            ELSE /\ pc' = "except"
                 /\ exc' = [at |-> "send_message", site |-> "", error |-> text.what]
    /\ UNCHANGED <<website, article_urls, idx, articles, delay, results, files, env>>
    /\ UNCHANGED callVars

\* lines 92-101: the bot, the crawler, the start message
SendStart == SendStatus("send_start", [what |-> "start"], "crawl_times_of_india")

\* a crawl_specific_website call in its try block: an exception of the
\* crawl or of the save leaves the site with []
CrawlSite(at, w, next) ==
    /\ pc = at
    /\ \E listing \in ForwardListings(w), rnd \in 0..RandSteps :
       \E responses \in [1..LinksOn(w, listing) -> ForwardArticles(w)] :
       \E fail_at \in 0..LinksOn(w, listing) :
       \E crawl \in {crawl_specific_website(files, w, listing, responses,
                                            forwarder_max_articles, rnd,
                                            fail_at, log)} :
         /\ log' = crawl.log
         /\ files' = crawl.files
         /\ results' = [s \in DOMAIN results \cup {w} |->
                           IF s # w THEN results[s]
                           ELSE IF crawl.raised THEN <<>> ELSE crawl.val]
    /\ pc' = next
    /\ UNCHANGED <<website, article_urls, idx, articles, delay, exc, env>>
    /\ UNCHANGED callVars

\* lines 103-112
CrawlTimesOfIndia ==
    CrawlSite("crawl_times_of_india", "times_of_india", "send_times_of_india")

\* lines 114-117
SendTimesOfIndiaCount ==
    SendStatus("send_times_of_india",
               [what |-> "count", site |-> "times_of_india",
                count |-> Len(results["times_of_india"])],
               "crawl_economic_times")

\* lines 119-128
CrawlEconomicTimes ==
    CrawlSite("crawl_economic_times", "economic_times", "send_economic_times")

\* lines 130-133
SendEconomicTimesCount ==
    SendStatus("send_economic_times",
               [what |-> "count", site |-> "economic_times",
                count |-> Len(results["economic_times"])],
               "summary")

\* the file save_crawl_results writes under test_data
export_path == <<"test_data", "crawled_articles">>

\* lines 135-154: all_articles, the export (guarded) and the summary
SaveAndSendSummary ==
    /\ pc = "summary"
    /\ LET all_articles == results["times_of_india"] \o results["economic_times"]
       IN  /\ articles' = all_articles
           /\ \E written \in BOOLEAN :
                files' = IF written
                         THEN [q \in DOMAIN files \cup {export_path} |->
                                  IF q = export_path
                                  THEN [i \in 1..Len(all_articles) |->
                                           json_dump(all_articles[i])]
                                  ELSE files[q]]
                         ELSE files
           /\ \E ok \in BOOLEAN :
                /\ log' = Append(log,
                                 Sent([what |-> "summary",
                                       total |-> Len(all_articles),
                                       times_of_india |-> Len(results["times_of_india"]),
                                       economic_times |-> Len(results["economic_times"])],
                                      "", ok))
                /\ IF ok THEN pc' = "send_articles" /\ idx' = 1 /\ exc' = exc
                   ELSE /\ pc' = "except"
                        /\ idx' = idx
                        /\ exc' = [at |-> "send_message", site |-> "",
                                    error |-> "summary"]
    /\ UNCHANGED <<website, article_urls, delay, results, env>>
    /\ UNCHANGED callVars

\* the loop body without its except branch
send_article_no_retry(message, markdown_ok, plain_ok) ==
    <<Sent(message, "Markdown", markdown_ok), Event("sleep", <<>>, "")>>

\* lines 160-173: the Markdown send; when it raises, the plain send of the
\* same text, whose failure is only logged; then the pause
send_article(message, markdown_ok, plain_ok) ==
    <<Sent(message, "Markdown", markdown_ok)>>
        \o (IF markdown_ok THEN <<>> ELSE <<Sent(message, "", plain_ok)>>)
        \o <<Event("sleep", <<>>, "")>>

\* lines 158-173: one pass of the loop over all_articles
SendArticle ==
    /\ pc = "send_articles"
    /\ idx <= Len(articles)
    /\ LET message == [what |-> "article",
                       message |-> format_article_message(articles[idx])]
       IN  \E markdown_ok, plain_ok \in BOOLEAN :
             log' = log \o send_article(message, markdown_ok, plain_ok)
    /\ idx' = idx + 1
    /\ UNCHANGED <<pc, website, article_urls, articles, delay, results, files,
                   exc, env>>
    /\ UNCHANGED callVars

\* lines 175-176
ReturnTrue ==
    /\ pc = "send_articles"
    /\ idx > Len(articles)
    /\ ret' = Returned(TRUE)
    /\ pc' = "returned"
    /\ UNCHANGED <<scraper, page, url, limit, articles, files, env>>
    /\ UNCHANGED crawlVars

\* lines 178-188: the error message, itself guarded, and False
ExceptClause ==
    /\ pc = "except"
    /\ \E ok \in BOOLEAN : log' = Append(log, Sent([what |-> "error"], "", ok))
    /\ ret' = Returned(FALSE)
    /\ pc' = "returned"
    /\ UNCHANGED <<scraper, page, url, limit, articles, files, env>>
    /\ UNCHANGED <<website, article_urls, idx, delay, results, exc>>

NextForward ==
    \/ CheckCredentials
    \/ SendStart
    \/ CrawlTimesOfIndia
    \/ SendTimesOfIndiaCount
    \/ CrawlEconomicTimes
    \/ SendEconomicTimesCount
    \/ SaveAndSendSummary
    \/ SendArticle
    \/ ReturnTrue
    \/ ExceptClause

SpecForward == InitForward /\ [][NextForward]_vars

---------------------------------------------------------------------------
(* Claims about the forwarder run *)

\* a credential is missing when its variable is unset or empty
MissingCredential ==
    \E v \in {"TELEGRAM_BOT_TOKEN", "TELEGRAM_CHAT_ID"} : env[v] \in {"unset", ""}

\* the sites the forwarder crawls, in order
ForwardSites == <<"times_of_india", "economic_times">>

\* some send of the article's message was attempted
Attempted(article) ==
    \E i \in 1..Len(log) :
        /\ log[i].op = "send" /\ log[i].text.what = "article"
        /\ log[i].text.message.url = article.url

\* C11: with both credentials set, a run ends having crawled both sites
\* and attempted a delivery for every article collected, whichever single
\* message failed to be delivered.
C11_SendFailureDoesNotAbort ==
    (pc = "returned" /\ ~MissingCredential) =>
        \A k \in 1..Len(ForwardSites) :
            LET w == ForwardSites[k]
            IN  /\ Crawled(w)
                /\ w \in DOMAIN results
                /\ \A i \in 1..Len(results[w]) : Attempted(results[w][i])

\* the sends of the messages of article k, in the order they were made
ArticleSends(k) ==
    SelectSeq(log, LAMBDA e : /\ e.op = "send" /\ e.text.what = "article"
                              /\ e.text.message.url = articles[k].url)

\* all the article sends of the run, in order
AllArticleSends ==
    SelectSeq(log, LAMBDA e : e.op = "send" /\ e.text.what = "article")

RECURSIVE SendsUpTo(_)
SendsUpTo(k) == IF k = 0 THEN <<>> ELSE SendsUpTo(k - 1) \o ArticleSends(k)

\* C12: in the send loop each article gets one Markdown attempt; a plain
\* attempt of the same message follows exactly when the Markdown one
\* failed, and only once; whatever the retry does the loop goes on, so the
\* sends of the run are those of the articles in order, one or two each,
\* and every article has been attempted when the run returns True.
C12_OneRetryThenNext ==
    pc \in {"send_articles", "returned"} /\ idx >= 1 =>
        /\ \A k \in 1..(idx - 1) :
               LET sends == ArticleSends(k)
               IN  /\ Len(sends) \in {1, 2}
                   /\ sends[1].parse_mode = "Markdown"
                   /\ Len(sends) = 2 <=> sends[1].kind = "failed"
                   /\ Len(sends) = 2 =>
                          /\ sends[2].parse_mode = ""
                          /\ sends[2].text = sends[1].text
        /\ AllArticleSends = SendsUpTo(idx - 1)
        /\ (pc = "returned" /\ ret = Returned(TRUE)) => idx = Len(articles) + 1

\* a run that returned True with two articles, both sends of the first
\* failed and the second still attempted
C12_Witness ==
    /\ pc = "returned" /\ ret = Returned(TRUE)
    /\ Len(articles) = 2
    /\ Len(ArticleSends(1)) = 2
    /\ ArticleSends(1)[2].kind = "failed"
    /\ Len(ArticleSends(2)) >= 1

\* no request of a page and no send of a message so far
NoNetworkActivity == \A i \in 1..Len(log) : log[i].op \notin {"get", "send"}

\* C13: when the bot token or the chat id is missing, the run makes no
\* page request and no send at any point, and what it returns is False.
C13_NoCredentialsNoNetwork ==
    MissingCredential =>
        /\ NoNetworkActivity
        /\ pc = "returned" => ret = Returned(FALSE)

\* the run has returned with the token set and the chat id missing
C13_Witness ==
    /\ pc = "returned"
    /\ env.TELEGRAM_BOT_TOKEN = "value"
    /\ env.TELEGRAM_CHAT_ID = "unset"
    /\ ret = Returned(FALSE)

===========================================================================
